---- MODULE Spec2Model ----
(***************************************************************************)
(* Model of AccuracyCalculator (src/src/accuracy_checker/                  *)
(* accuracy_checker.py): the record store built by the two load            *)
(* operations, the greedy IoU matcher, the TP/FP/FN aggregator, the        *)
(* precision/recall curve builder and the AP/mAP integrator.               *)
(*                                                                         *)
(* Python floats that the code obtains by dividing two integers are kept   *)
(* as exact fractions <<numerator, denominator>> with a positive           *)
(* denominator, reduced to lowest terms; comparisons of two such quotients *)
(* agree with the comparison of the correctly rounded floats for the small *)
(* integers used here.  Confidences are integers (hundredths).             *)
(***************************************************************************)
EXTENDS Integers, Sequences, FiniteSets, TLC

\* ------------------------------------------------------------------ bounds
\* Longest ground-truth file (rows) and longest detection file (rows) loaded.
MaxGt == 2
MaxDet == 2
\* The same for the single-class files of SpecCurve.
MaxCurveGt == 2
MaxCurveDet == 3

\* ------------------------------------------------------------- input rows
\* CsvGTReader rows: <<frame_id, class_name, x1, y1, x2, y2>>.
GtRows ==
    { <<1, "car", 0, 0, 9, 4>>,
      <<1, "car", 0, 5, 9, 14>>,
      <<2, "car", 0, 0, 9, 4>>,
      <<1, "bus", 0, 0, 9, 4>> }

\* DetectionReader rows: <<frame_id, class_name, x1, y1, x2, y2, confidence>>.
DetRows ==
    { <<1, "car", 0, 0, 9, 9, 90>>,
      <<1, "car", 20, 20, 29, 29, 80>>,
      <<2, "car", 0, 0, 9, 9, 90>>,
      <<1, "bus", 0, 0, 9, 9, 70>> }

\* Single-class files whose detections have three distinct confidences.
CurveGtRows ==
    { <<1, "car", 0, 0, 9, 4>>,
      <<2, "car", 0, 0, 9, 4>> }

CurveDetRows ==
    { <<1, "car", 0, 0, 9, 9, 90>>,
      <<1, "car", 20, 20, 29, 29, 80>>,
      <<2, "car", 0, 0, 9, 9, 70>> }

\* Values the constructor argument iou_threshold takes (0 and the default 0.5).
IouThresholds == { <<0, 1>>, <<1, 2>> }

SeqsUpTo(S, n) == UNION { [1..k -> S] : k \in 0..n }

\* -------------------------------------------------------------- fractions
Max(a, b) == IF a >= b THEN a ELSE b
Min(a, b) == IF a <= b THEN a ELSE b
Abs(a) == IF a < 0 THEN -a ELSE a

RECURSIVE Gcd(_, _)
Gcd(a, b) == IF b = 0 THEN a ELSE Gcd(b, a % b)

\* Python's n / d for integers n, d with d # 0.
Div(n, d) ==
    LET g == Gcd(Abs(n), Abs(d))
        s == IF d < 0 THEN -1 ELSE 1
    IN  << (s * n) \div g, (s * d) \div g >>

Zero == <<0, 1>>
One == <<1, 1>>
RatGT(a, b) == a[1] * b[2] > b[1] * a[2]
RatGE(a, b) == a[1] * b[2] >= b[1] * a[2]
RatAdd(a, b) == Div(a[1] * b[2] + b[1] * a[2], a[2] * b[2])
RatSub(a, b) == Div(a[1] * b[2] - b[1] * a[2], a[2] * b[2])
RatMul(a, b) == Div(a[1] * b[1], a[2] * b[2])

\* Sum of the values of a function with a finite domain.
RECURSIVE SumFn(_)
SumFn(f) ==
    IF DOMAIN f = {} THEN 0
    ELSE LET k == CHOOSE k \in DOMAIN f : TRUE
         IN  f[k] + SumFn([j \in DOMAIN f \ {k} |-> f[j]])

EmptyDict == [k \in {} |-> 0]

\* ----------------------------------------------------------- record store
\* __split_data_by_classes: {class_name: [[frame_id, *args], ...]}.
RECURSIVE SplitDataByClassesFrom(_, _, _)
SplitDataByClassesFrom(data, i, formated_data) ==
    IF i > Len(data) THEN formated_data
    ELSE LET row == data[i]
             frame_id == row[1]
             class_name == row[2]
             args == SubSeq(row, 3, Len(row))
             d1 == IF class_name \in DOMAIN formated_data
                   THEN formated_data
                   ELSE formated_data @@ (class_name :> <<>>)
         IN  SplitDataByClassesFrom(data, i + 1,
                 [d1 EXCEPT ![class_name] = Append(@, <<frame_id>> \o args)])

SplitDataByClasses(data) == SplitDataByClassesFrom(data, 1, EmptyDict)

\* __split_data_by_classes_and_frames: {class_name: {frame_id: [args, ...]}}.
RECURSIVE SplitDataByClassesAndFramesFrom(_, _, _)
SplitDataByClassesAndFramesFrom(data, i, formated_data) ==
    IF i > Len(data) THEN formated_data
    ELSE LET row == data[i]
             frame_id == row[1]
             class_name == row[2]
             args == SubSeq(row, 3, Len(row))
             d1 == IF class_name \in DOMAIN formated_data
                   THEN formated_data
                   ELSE formated_data @@ (class_name :> EmptyDict)
             d2 == IF frame_id \in DOMAIN d1[class_name]
                   THEN d1
                   ELSE [d1 EXCEPT ![class_name] = @ @@ (frame_id :> <<>>)]
         IN  SplitDataByClassesAndFramesFrom(data, i + 1,
                 [d2 EXCEPT ![class_name][frame_id] = Append(@, args)])

SplitDataByClassesAndFrames(data) ==
    SplitDataByClassesAndFramesFrom(data, 1, EmptyDict)

\* Iteration order of a dict built by the two functions above: the classes in
\* the order of their first row.
RECURSIVE DictKeysFrom(_, _, _)
DictKeysFrom(data, i, keys) ==
    IF i > Len(data) THEN keys
    ELSE LET class_name == data[i][2]
         IN  DictKeysFrom(data, i + 1,
                 IF \E j \in 1..Len(keys) : keys[j] = class_name
                 THEN keys ELSE Append(keys, class_name))

DictKeys(data) == DictKeysFrom(data, 1, <<>>)

\* ------------------------------------------------------------------- IoU
\* __calc_iou(bbox1, bbox2), boxes <<x1, y1, x2, y2>>.
CalcIou(bbox1, bbox2) ==
    LET xi1 == Max(bbox1[1], bbox2[1])
        yi1 == Max(bbox1[2], bbox2[2])
        xi2 == Min(bbox1[3], bbox2[3])
        yi2 == Min(bbox1[4], bbox2[4])
        inter_area == Max(0, xi2 - xi1 + 1) * Max(0, yi2 - yi1 + 1)
        bbox1_area == (bbox1[3] - bbox1[1] + 1) * (bbox1[4] - bbox1[2] + 1)
        bbox2_area == (bbox2[3] - bbox2[1] + 1) * (bbox2[4] - bbox2[2] + 1)
        union_area == bbox1_area + bbox2_area - inter_area
    IN  IF union_area > 0 THEN Div(inter_area, union_area) ELSE Zero

\* The search loop of both matchers: best_iou = 0, best_gt_idx = -1, then
\* "if iou > best_iou" over enumerate(groundtruths); idx counts from 0.
RECURSIVE BestGtFrom(_, _, _, _)
BestGtFrom(bbox, groundtruths, idx, best) ==
    IF idx >= Len(groundtruths) THEN best
    ELSE LET iou == CalcIou(bbox, groundtruths[idx + 1])
         IN  BestGtFrom(bbox, groundtruths, idx + 1,
                 IF RatGT(iou, best.best_iou)
                 THEN [best_iou |-> iou, best_gt_idx |-> idx]
                 ELSE best)

BestGt(bbox, groundtruths) ==
    BestGtFrom(bbox, groundtruths, 0, [best_iou |-> Zero, best_gt_idx |-> -1])

\* --------------------------------------------------------------- sorting
\* sorted(dets, key=lambda x: x[-1], reverse=True): descending by the last
\* element, rows with equal confidence keep their order.
RECURSIVE SortedByConfFrom(_, _, _)
SortedByConfFrom(dets, i, acc) ==
    IF i > Len(dets) THEN acc
    ELSE LET d == dets[i]
             k == Cardinality({ j \in 1..Len(acc) :
                                  acc[j][Len(acc[j])] >= d[Len(d)] })
         IN  SortedByConfFrom(dets, i + 1,
                 SubSeq(acc, 1, k) \o <<d>> \o SubSeq(acc, k + 1, Len(acc)))

SortedByConf(dets) == SortedByConfFrom(dets, 1, <<>>)

\* __sort_grouped_dets_by_conf({frame_id: [dets]}).
SortGroupedDetsByConf(detections) ==
    [frame \in DOMAIN detections |-> SortedByConf(detections[frame])]

\* __sort_raw_dets_by_conf([dets]).
SortRawDetsByConf(detections) == SortedByConf(detections)

\* --------------------------------------------------------------- matcher
\* What a matcher keeps of one decision: the best box it found, the boxes
\* matched before, and the verdict.
LogEntry(best, before, hit) ==
    [best_iou |-> best.best_iou, best_gt_idx |-> best.best_gt_idx,
     before |-> before, tp |-> IF hit THEN 1 ELSE 0]

\* The counters after a decision: "tp += 1; matched.add(best_gt_idx)" or
\* "fp += 1".
Score(st, best, hit) ==
    IF hit
    THEN [st EXCEPT !.tp = @ + 1,
                    !.matched = @ \cup {best.best_gt_idx},
                    !.log = Append(@, LogEntry(best, st.matched, hit))]
    ELSE [st EXCEPT !.fp = @ + 1,
                    !.log = Append(@, LogEntry(best, st.matched, hit))]

\* Decide that scores on the IoU alone, also for a box already matched.
DecideAnyBox(self, best, matched) ==
    RatGE(best.best_iou, self.iou_threshold)

\* "if best_iou >= self.iou_threshold and best_gt_idx not in matched".
Decide(self, best, matched) ==
    /\ RatGE(best.best_iou, self.iou_threshold)
    /\ best.best_gt_idx \notin matched

GroupedScore(self, best, st) == Score(st, best, Decide(self, best, st.matched))

\* One iteration of "for det in detections" in __match_grouped_dets_to_gts;
\* st.log keeps, per detection, what the iteration saw and decided.
GroupedStep(self, det, groundtruths, st) ==
    GroupedScore(self, BestGt(SubSeq(det, 1, Len(det) - 1), groundtruths), st)

RECURSIVE GroupedLoop(_, _, _, _, _)
GroupedLoop(self, detections, groundtruths, i, st) ==
    IF i > Len(detections) THEN st
    ELSE GroupedLoop(self, detections, groundtruths, i + 1,
             GroupedStep(self, detections[i], groundtruths, st))

\* GroupedResult with fn counted against the detections, not the boxes.
GroupedResultFnFromDets(st, detections, groundtruths) ==
    [tp |-> st.tp, fp |-> st.fp,
     fn |-> Len(detections) - Cardinality(st.matched),
     detections |-> detections, groundtruths |-> groundtruths,
     log |-> st.log]

\* "fn = len(groundtruths) - len(matched); return tp, fp, fn", with the two
\* lists and the decisions of the pass.
GroupedResult(st, detections, groundtruths) ==
    [tp |-> st.tp, fp |-> st.fp,
     fn |-> Len(groundtruths) - Cardinality(st.matched),
     detections |-> detections, groundtruths |-> groundtruths,
     log |-> st.log]

\* __match_grouped_dets_to_gts(detections, groundtruths) -> tp, fp, fn.
MatchGroupedDetsToGts(self, detections, groundtruths) ==
    GroupedResult(GroupedLoop(self, detections, groundtruths, 1,
                      [tp |-> 0, fp |-> 0, matched |-> {}, log |-> <<>>]),
                  detections, groundtruths)

\* __match_raw_det_to_gts(class_name, detection) -> tp, fp; raised is TRUE
\* when self.gts_by_frames[class_name][frame_id] is a KeyError.
\* "if frame_id not in self.matched_dets: self.matched_dets[frame_id] = set()"
WithFrame(matched, frame_id) ==
    IF frame_id \in DOMAIN matched THEN matched ELSE matched @@ (frame_id :> {})

\* Lines 343-350: the verdict on one detection and self.matched_dets after it.
RawScore(best, matched, frame_id, hit) ==
    [raised |-> FALSE,
     tp |-> IF hit THEN 1 ELSE 0,
     fp |-> IF hit THEN 0 ELSE 1,
     matched_dets |->
         IF hit
         THEN [matched EXCEPT ![frame_id] = @ \cup {best.best_gt_idx}]
         ELSE matched,
     best_iou |-> best.best_iou,
     best_gt_idx |-> best.best_gt_idx,
     before |-> matched[frame_id]]

\* RawDecide without "best_gt_idx not in self.matched_dets[frame_id]".
RawDecideUnmatched(self, best, matched, frame_id) ==
    RawScore(best, matched, frame_id,
             RatGE(best.best_iou, self.iou_threshold))

\* "if best_iou >= self.iou_threshold and best_gt_idx not in
\* self.matched_dets[frame_id]" and what follows it.
RawDecide(self, best, matched, frame_id) ==
    RawScore(best, matched, frame_id, Decide(self, best, matched[frame_id]))

MatchRawDetToGts(self, class_name, detection) ==
    IF detection[1] \notin DOMAIN self.gts_by_frames[class_name]
    THEN [raised |-> TRUE, tp |-> 0, fp |-> 0,
          matched_dets |-> self.matched_dets,
          best_iou |-> Zero, best_gt_idx |-> -1, before |-> {}]
    ELSE RawDecide(self,
             BestGt(SubSeq(detection, 2, 5),
                    self.gts_by_frames[class_name][detection[1]]),
             WithFrame(self.matched_dets, detection[1]),
             detection[1])

\* ------------------------------------------------------------ aggregator
DetectionsOf(self, class_name) ==
    IF class_name \in DOMAIN self.dets_by_frames
    THEN self.dets_by_frames[class_name] ELSE EmptyDict

\* dict.get(frame_id, [])
Get(d, frame_id) == IF frame_id \in DOMAIN d THEN d[frame_id] ELSE <<>>

\* The Matcher calls of calc_total_tp and calc_total_fp for one class: one per
\* frame of the class's detections.
PassesOverDets(self, class_name) ==
    LET all_detections == SortGroupedDetsByConf(DetectionsOf(self, class_name))
        groundtruths == self.gts_by_frames[class_name]
    IN  [frame_id \in DOMAIN all_detections |->
            MatchGroupedDetsToGts(self, all_detections[frame_id],
                                  Get(groundtruths, frame_id))]

\* The Matcher calls of calc_total_fn for one class: one per frame of the
\* class's ground truth.
PassesOverGts(self, class_name) ==
    LET all_detections == SortGroupedDetsByConf(DetectionsOf(self, class_name))
        groundtruths == self.gts_by_frames[class_name]
    IN  [frame_id \in DOMAIN groundtruths |->
            MatchGroupedDetsToGts(self, Get(all_detections, frame_id),
                                  groundtruths[frame_id])]

SumTp(ps) == SumFn([f \in DOMAIN ps |-> ps[f].tp])
SumFp(ps) == SumFn([f \in DOMAIN ps |-> ps[f].fp])
SumFnOf(ps) == SumFn([f \in DOMAIN ps |-> ps[f].fn])

\* calc_total_tp()
CalcTotalTp(self) ==
    SumFn([class_name \in DOMAIN self.gts_by_frames |->
        IF DOMAIN DetectionsOf(self, class_name) # {}
        THEN SumTp(PassesOverDets(self, class_name))
        ELSE 0])

\* calc_total_fn()
CalcTotalFn(self) ==
    SumFn([class_name \in DOMAIN self.gts_by_frames |->
        IF DOMAIN DetectionsOf(self, class_name) = {}
        THEN Len(self.gts_raw[class_name])
        ELSE SumFnOf(PassesOverGts(self, class_name))])

\* calc_total_fp without its second loop.
SpuriousFpSkipped(self) == 0

\* The second loop of calc_total_fp: classes of the detections that are no
\* class of the ground truth.
SpuriousFp(self) ==
    SumFn([class_name \in DOMAIN self.dets_by_frames
                            \ DOMAIN self.gts_by_frames |->
        LET detections == self.dets_by_frames[class_name]
        IN  SumFn([frame_id \in DOMAIN detections |->
                      Len(detections[frame_id])])])

\* calc_total_fp()
CalcTotalFp(self) ==
    SumFn([class_name \in DOMAIN self.gts_by_frames |->
        IF DOMAIN DetectionsOf(self, class_name) # {}
        THEN SumFp(PassesOverDets(self, class_name))
        ELSE 0])
    + SpuriousFp(self)

\* "n / (n + m) if (n + m) else 0"
Rate(n, m) == IF n + m # 0 THEN Div(n, n + m) ELSE Zero

\* "fp / (tp + fp) if (tp + fp) else 0"
RateOfSecond(tp, fp) == IF tp + fp # 0 THEN Div(fp, tp + fp) ELSE Zero

\* calc_tpr()
CalcTpr(self) == Rate(CalcTotalTp(self), CalcTotalFn(self))

\* calc_fdr()
CalcFdr(self) == RateOfSecond(CalcTotalTp(self), CalcTotalFp(self))

\* Every Matcher call one aggregator query makes, as a set.
Range(f) == { f[x] : x \in DOMAIN f }

AggregatorPasses(self, over_gts) ==
    UNION { Range(IF over_gts THEN PassesOverGts(self, c)
                  ELSE PassesOverDets(self, c)) :
            c \in { c \in DOMAIN self.gts_by_frames :
                      DOMAIN DetectionsOf(self, c) # {} } }

\* ---------------------------------------------------------- curve builder
\* The body of "for det in ..." in calc_precision_recall; st.raised is set
\* when the match raised KeyError and the loop was left.
\* Lines 207-221: the point appended for the totals so far.
Precision(has_gts, has_dets, tp_total, fp_total) ==
    IF has_gts /\ has_dets THEN Rate(tp_total, fp_total)
    ELSE IF ~has_gts /\ has_dets THEN Zero
    ELSE One

Recall(has_gts, has_dets, tp_total, fn_total) ==
    IF has_gts /\ has_dets THEN Rate(tp_total, fn_total)
    ELSE IF ~has_gts /\ has_dets THEN One
    ELSE IF has_gts /\ ~has_dets THEN Zero
    ELSE One

\* Lines 203-224 for the totals after one detection.
CurvePoint(st, m, det, has_gts, tp_total, fp_total, fn_total) ==
    [st EXCEPT
        !.matched_dets = m.matched_dets,
        !.tp_total = tp_total,
        !.fp_total = fp_total,
        !.fn_total = fn_total,
        !.precisions_total =
            Append(@, Precision(has_gts, (tp_total + fp_total) > 0,
                                tp_total, fp_total)),
        !.recalls_total =
            Append(@, Recall(has_gts, (tp_total + fp_total) > 0,
                             tp_total, fn_total)),
        !.log = Append(@, [frame_id |-> det[1], best_iou |-> m.best_iou,
                           best_gt_idx |-> m.best_gt_idx, before |-> m.before,
                           tp |-> m.tp, conf |-> det[Len(det)]])]

CurveAdvance(st, m, gts, det) ==
    IF m.raised
    THEN [st EXCEPT !.raised = TRUE]
    ELSE CurvePoint(st, m, det, Len(gts) > 0,
                    st.tp_total + m.tp, st.fp_total + m.fp, st.fn_total - m.tp)

CurveStep(self, class_name, gts, det, st) ==
    CurveAdvance(st,
        MatchRawDetToGts([self EXCEPT !.matched_dets = st.matched_dets],
                         class_name, det),
        gts, det)

RECURSIVE CurveLoop(_, _, _, _, _, _)
CurveLoop(self, class_name, gts, dets, i, st) ==
    IF i > Len(dets) \/ st.raised THEN st
    ELSE CurveLoop(self, class_name, gts, dets, i + 1,
             CurveStep(self, class_name, gts, dets[i], st))

\* "return precisions_total, recalls_total", or the KeyError, with
\* self.matched_dets as the call leaves it.
CurveResult(st) ==
    [status |-> IF st.raised THEN "KeyError" ELSE "ok",
     precisions |-> IF st.raised THEN <<>> ELSE st.precisions_total,
     recalls |-> IF st.raised THEN <<>> ELSE st.recalls_total,
     matched_dets |-> st.matched_dets, log |-> st.log,
     fn_total |-> st.fn_total]

\* calc_precision_recall without "self.matched_dets = {}".
CalcPrecisionRecallNoReset(self, class_name) ==
    IF \/ class_name \notin DOMAIN self.dets_by_frames
       \/ class_name \notin DOMAIN self.gts_by_frames
    THEN [status |-> "ok", precisions |-> <<>>, recalls |-> <<>>,
          matched_dets |-> self.matched_dets, log |-> <<>>,
          fn_total |-> 0]
    ELSE CurveResult(
             CurveLoop(self, class_name, self.gts_raw[class_name],
                 SortRawDetsByConf(self.dets_raw[class_name]), 1,
                 [matched_dets |-> self.matched_dets,
                  tp_total |-> 0, fp_total |-> 0,
                  fn_total |-> Len(self.gts_raw[class_name]),
                  precisions_total |-> <<>>, recalls_total |-> <<>>,
                  log |-> <<>>, raised |-> FALSE]))

\* calc_precision_recall(class_name) -> precisions, recalls.  status is
\* "KeyError" when the call raised; matched_dets is self.matched_dets as the
\* call left it.
CalcPrecisionRecall(self, class_name) ==
    IF \/ class_name \notin DOMAIN self.dets_by_frames
       \/ class_name \notin DOMAIN self.gts_by_frames
    THEN [status |-> "ok", precisions |-> <<>>, recalls |-> <<>>,
          matched_dets |-> self.matched_dets, log |-> <<>>,
          fn_total |-> 0]
    ELSE CurveResult(
             CurveLoop(self, class_name, self.gts_raw[class_name],
                 SortRawDetsByConf(self.dets_raw[class_name]), 1,
                 [matched_dets |-> EmptyDict,
                  tp_total |-> 0, fp_total |-> 0,
                  fn_total |-> Len(self.gts_raw[class_name]),
                  precisions_total |-> <<>>, recalls_total |-> <<>>,
                  log |-> <<>>, raised |-> FALSE]))

\* ---------------------------------------------------------- AP integrator
\* ScanPoint that moves rec_end but never raises cur_max_prec.
ScanPointFlatMax(st, prec, rec_start) ==
    IF RatGT(prec, st.cur_max_prec)
    THEN [ap |-> RatAdd(st.ap, RatMul(RatSub(st.rec_end, rec_start),
                                      st.cur_max_prec)),
          cur_max_prec |-> st.cur_max_prec,
          rec_end |-> rec_start]
    ELSE st

\* Lines 246-249: a point above the running maximum closes a segment.
ScanPoint(st, prec, rec_start) ==
    IF RatGT(prec, st.cur_max_prec)
    THEN [ap |-> RatAdd(st.ap, RatMul(RatSub(st.rec_end, rec_start),
                                      st.cur_max_prec)),
          cur_max_prec |-> prec,
          rec_end |-> rec_start]
    ELSE st

\* "for i in range(1, len(precisions) + 1)" in calc_ap; precisions[-i] is
\* the i-th point from the end.
RECURSIVE ApLoop(_, _, _, _)
ApLoop(precisions, recalls, i, st) ==
    IF i > Len(precisions) THEN st
    ELSE ApLoop(precisions, recalls, i + 1,
             ScanPoint(st, precisions[Len(precisions) - i + 1],
                 recalls[Len(recalls) - i + 1]))

\* Integrate without the closing segment (0 ... last point).
IntegrateNoTail(precisions, recalls) ==
    IF Len(precisions) = 0 THEN Zero
    ELSE ApLoop(precisions, recalls, 1,
             [ap |-> Zero,
              cur_max_prec |-> precisions[Len(precisions)],
              rec_end |-> recalls[Len(recalls)]]).ap

\* "ap += (rec_end - 0.0) * cur_max_prec"
LastSegment(st) ==
    RatAdd(st.ap, RatMul(RatSub(st.rec_end, Zero), st.cur_max_prec))

\* The part of calc_ap after the call of calc_precision_recall.
Integrate(precisions, recalls) ==
    IF Len(precisions) = 0 THEN Zero
    ELSE LastSegment(ApLoop(precisions, recalls, 1,
                         [ap |-> Zero,
                          cur_max_prec |-> precisions[Len(precisions)],
                          rec_end |-> recalls[Len(recalls)]]))

\* calc_ap on the curve pr.
ApOf(pr) ==
    [status |-> pr.status,
     value |-> IF pr.status = "ok"
               THEN Integrate(pr.precisions, pr.recalls) ELSE Zero,
     precisions |-> pr.precisions, recalls |-> pr.recalls,
     matched_dets |-> pr.matched_dets, log |-> pr.log]

\* calc_ap(class_name)
CalcAp(self, class_name) == ApOf(CalcPrecisionRecall(self, class_name))

\* "for class_name in all_classes: total_ap += self.calc_ap(class_name)" in
\* calc_map, over the classes in the dict's order.
\* "total_ap += self.calc_ap(class_name)", r what calc_ap returned.
AddAp(st, r) ==
    [status |-> r.status,
     total_ap |-> IF r.status = "ok" THEN RatAdd(st.total_ap, r.value)
                  ELSE st.total_ap,
     matched_dets |-> r.matched_dets]

RECURSIVE MapLoop(_, _, _, _)
MapLoop(self, all_classes, i, st) ==
    IF i > Len(all_classes) \/ st.status # "ok" THEN st
    ELSE MapLoop(self, all_classes, i + 1,
             AddAp(st, CalcAp([self EXCEPT !.matched_dets = st.matched_dets],
                              all_classes[i])))

\* "return total_ap / len(all_classes) if all_classes else 0"
MeanAp(st, all_classes) ==
    [status |-> st.status,
     value |-> IF st.status = "ok" /\ Len(all_classes) # 0
               THEN RatMul(st.total_ap, Div(1, Len(all_classes)))
               ELSE Zero,
     matched_dets |-> st.matched_dets]

\* calc_map()
CalcMap(self) ==
    MeanAp(MapLoop(self, self.gts_keys, 1,
               [status |-> "ok", total_ap |-> Zero,
                matched_dets |-> self.matched_dets]),
           self.gts_keys)

\* ---------------------------------------------------------------- state
VARIABLES
    iou_threshold,   \* self.iou_threshold
    gts_raw,         \* self.gts_raw
    dets_raw,        \* self.dets_raw
    gts_by_frames,   \* self.gts_by_frames
    dets_by_frames,  \* self.dets_by_frames
    gts_keys,        \* iteration order of self.gts_by_frames.keys()
    matched_dets,    \* self.matched_dets
    gt_file,         \* rows the last CsvGTReader(file_path).read() returned
    det_file,        \* rows the last DetectionReader(file_path).read() returned
    last             \* the last call on the object and what it returned

vars == << iou_threshold, gts_raw, dets_raw, gts_by_frames, dets_by_frames,
           gts_keys, matched_dets, gt_file, det_file, last >>

store == << iou_threshold, gts_raw, dets_raw, gts_by_frames, dets_by_frames,
            gts_keys, gt_file, det_file >>

Self ==
    [iou_threshold |-> iou_threshold,
     gts_raw |-> gts_raw, dets_raw |-> dets_raw,
     gts_by_frames |-> gts_by_frames, dets_by_frames |-> dets_by_frames,
     gts_keys |-> gts_keys, matched_dets |-> matched_dets]

\* What a call left behind: op and arg name the call, status is "ok" or the
\* exception, value the number returned, precisions/recalls the sequences
\* returned, log the per-detection decisions of a Curve Builder pass, passes
\* the Matcher calls of an aggregator query, over_stale see OverStale.
Outcome(op, arg, status, value, precisions, recalls, log, passes) ==
    [op |-> op, arg |-> arg, status |-> status, value |-> value,
     precisions |-> precisions, recalls |-> recalls, log |-> log,
     passes |-> passes, over_stale |-> FALSE]

\* TRUE when a Curve Builder pass credited a box that self.matched_dets, as
\* the call found it, already held for the same frame.
OverStale(stale, log) ==
    \E i \in 1..Len(log) :
        /\ log[i].tp = 1
        /\ log[i].frame_id \in DOMAIN stale
        /\ log[i].best_gt_idx \in stale[log[i].frame_id]

Returned(op, value) == Outcome(op, "", "ok", value, <<>>, <<>>, <<>>, {})

\* __init__(iou_threshold)
\* The checker as constructed with one of the thresholds.
Constructed(thresholds) ==
    /\ iou_threshold \in thresholds
    /\ gts_raw = EmptyDict
    /\ dets_raw = EmptyDict
    /\ gts_by_frames = EmptyDict
    /\ dets_by_frames = EmptyDict
    /\ gts_keys = <<>>
    /\ matched_dets = EmptyDict
    /\ gt_file = <<>>
    /\ det_file = <<>>
    /\ last = Returned("__init__", Zero)

Init == Constructed(IouThresholds)

\* AccuracyChecker(): the default iou_threshold=0.5 of line 37.
DefaultIouThreshold == { <<1, 2>> }

InitDefault == Constructed(DefaultIouThreshold)

\* load_groundtruths that adds the new rows to the rows already held.
LoadGroundtruthsIncremental(files) ==
    \E parsed_data \in files :
        /\ gts_raw' = SplitDataByClasses(gt_file \o parsed_data)
        /\ gts_by_frames' = SplitDataByClassesAndFrames(gt_file \o parsed_data)
        /\ gts_keys' = DictKeys(gt_file \o parsed_data)
        /\ gt_file' = parsed_data
        /\ last' = Returned("load_groundtruths", Zero)
        /\ UNCHANGED << iou_threshold, dets_raw, dets_by_frames, matched_dets,
                        det_file >>

\* load_groundtruths(file_path), the reader returning one of files.
LoadGroundtruthsOf(files) ==
    \E parsed_data \in files :
        /\ gts_raw' = SplitDataByClasses(parsed_data)
        /\ gts_by_frames' = SplitDataByClassesAndFrames(parsed_data)
        /\ gts_keys' = DictKeys(parsed_data)
        /\ gt_file' = parsed_data
        /\ last' = Returned("load_groundtruths", Zero)
        /\ UNCHANGED << iou_threshold, dets_raw, dets_by_frames, matched_dets,
                        det_file >>

\* load_detections(file_path), the reader returning one of files.
LoadDetectionsOf(files) ==
    \E parsed_data \in files :
        /\ dets_raw' = SplitDataByClasses(parsed_data)
        /\ dets_by_frames' = SplitDataByClassesAndFrames(parsed_data)
        /\ det_file' = parsed_data
        /\ last' = Returned("load_detections", Zero)
        /\ UNCHANGED << iou_threshold, gts_raw, gts_by_frames, gts_keys,
                        matched_dets, gt_file >>

LoadGroundtruths == LoadGroundtruthsOf(SeqsUpTo(GtRows, MaxGt))

LoadDetections == LoadDetectionsOf(SeqsUpTo(DetRows, MaxDet))

LoadCurveGroundtruths == LoadGroundtruthsOf(SeqsUpTo(CurveGtRows, MaxCurveGt))

LoadCurveDetections == LoadDetectionsOf(SeqsUpTo(CurveDetRows, MaxCurveDet))

CallCalcTotalTp ==
    /\ last' = Outcome("calc_total_tp", "", "ok", <<CalcTotalTp(Self), 1>>,
                       <<>>, <<>>, <<>>, AggregatorPasses(Self, FALSE))
    /\ UNCHANGED << store, matched_dets >>

CallCalcTotalFn ==
    /\ last' = Outcome("calc_total_fn", "", "ok", <<CalcTotalFn(Self), 1>>,
                       <<>>, <<>>, <<>>, AggregatorPasses(Self, TRUE))
    /\ UNCHANGED << store, matched_dets >>

CallCalcTotalFp ==
    /\ last' = Outcome("calc_total_fp", "", "ok", <<CalcTotalFp(Self), 1>>,
                       <<>>, <<>>, <<>>, AggregatorPasses(Self, FALSE))
    /\ UNCHANGED << store, matched_dets >>

CallCalcTpr ==
    /\ last' = Returned("calc_tpr", CalcTpr(Self))
    /\ UNCHANGED << store, matched_dets >>

CallCalcFdr ==
    /\ last' = Returned("calc_fdr", CalcFdr(Self))
    /\ UNCHANGED << store, matched_dets >>

Classes == { "car", "bus" }

\* The object and the caller after a call that returned (or raised) r.
Leaves(op, class_name, r, value, precisions, recalls, log) ==
    /\ matched_dets' = r.matched_dets
    /\ last' = [Outcome(op, class_name, r.status, value, precisions, recalls,
                        log, {})
                    EXCEPT !.over_stale = OverStale(matched_dets, log)]
    /\ UNCHANGED store

LeavesCurve(op, class_name, r) ==
    Leaves(op, class_name, r, Zero, r.precisions, r.recalls, r.log)

LeavesAp(op, class_name, r) ==
    Leaves(op, class_name, r, r.value, r.precisions, r.recalls, r.log)

LeavesMap(op, r) == Leaves(op, "", r, r.value, <<>>, <<>>, <<>>)

CallCalcPrecisionRecall ==
    \E class_name \in Classes :
        LeavesCurve("calc_precision_recall", class_name,
                    CalcPrecisionRecall(Self, class_name))

CallCalcAp ==
    \E class_name \in Classes :
        LeavesAp("calc_ap", class_name, CalcAp(Self, class_name))

CallCalcMap == LeavesMap("calc_map", CalcMap(Self))

Next ==
    \/ LoadGroundtruths
    \/ LoadDetections
    \/ CallCalcTotalTp
    \/ CallCalcTotalFn
    \/ CallCalcTotalFp
    \/ CallCalcTpr
    \/ CallCalcFdr
    \/ CallCalcPrecisionRecall
    \/ CallCalcAp
    \/ CallCalcMap

Spec == Init /\ [][Next]_vars

\* The Curve Builder and the AP integrator on longer single-class files.
NextCurve ==
    \/ LoadCurveGroundtruths
    \/ LoadCurveDetections
    \/ CallCalcPrecisionRecall
    \/ CallCalcAp
    \/ CallCalcMap

SpecCurve == InitDefault /\ [][NextCurve]_vars

\* ------------------------------------------------------------------ claims
BothLoaded(class_name) ==
    /\ class_name \in DOMAIN gts_by_frames
    /\ class_name \in DOMAIN dets_by_frames

AllTp(log) == \A i \in 1..Len(log) : log[i].tp = 1

\* Every detection is a true positive of a ground-truth box.
AllTpOfBoxes(log) ==
    \A i \in 1..Len(log) : log[i].tp = 1 /\ log[i].best_gt_idx >= 0

\* C1: for a class present in both indices calc_precision_recall returns
\* without raising, with one (precision, recall) entry per detection of the
\* class, processed in confidence-descending order -- also when a detection
\* lies in a frame without ground truth of the class.  The code raises
\* KeyError there.
C1_OnePointPerDetection ==
    (last.op = "calc_precision_recall" /\ BothLoaded(last.arg)) =>
        /\ last.status = "ok"
        /\ Len(last.precisions) = Len(dets_raw[last.arg])
        /\ Len(last.recalls) = Len(dets_raw[last.arg])
        /\ \A i \in 1..Len(last.log) : \A j \in i..Len(last.log) :
               last.log[i].conf >= last.log[j].conf

\* C2 as stated: calc_ap(class) = 1 whenever every detection of the class is
\* a true positive, whatever the numbers of boxes and detections.
C2_ApOneWhenAllTp ==
    (/\ last.op = "calc_ap" /\ last.status = "ok"
     /\ Len(last.log) > 0 /\ AllTpOfBoxes(last.log)) =>
        last.value = One

\* C2 amended: when every detection of the class is a true positive,
\* calc_ap(class) is the number of detections of the class divided by the
\* number of its ground-truth boxes (so 1 when the two numbers are equal).
C2_ApIsDetectionsOverBoxes ==
    (/\ last.op = "calc_ap" /\ last.status = "ok"
     /\ Len(last.log) > 0 /\ AllTp(last.log)) =>
        last.value = Div(Len(dets_raw[last.arg]), Len(gts_raw[last.arg]))

C2_Witness ==
    /\ last.op = "calc_ap" /\ last.status = "ok"
    /\ iou_threshold = <<1, 2>>
    /\ Len(last.log) = 2 /\ AllTpOfBoxes(last.log)
    /\ Len(gts_raw[last.arg]) = 2
    /\ last.value = One

\* The rows of a file that belong to one class (and one frame), in file order.
RowsOfClass(file, class_name) ==
    LET Test(row) == row[2] = class_name IN SelectSeq(file, Test)

RowsOfClassAndFrame(file, class_name, frame_id) ==
    LET Test(row) == row[2] = class_name /\ row[1] = frame_id
    IN  SelectSeq(file, Test)

ClassesOf(file) == { file[i][2] : i \in 1..Len(file) }

FramesOf(file, class_name) ==
    { file[i][1] : i \in { j \in 1..Len(file) : file[j][2] = class_name } }

HoldsExactly(raw, by_frames, file) ==
    /\ DOMAIN raw = ClassesOf(file)
    /\ DOMAIN by_frames = ClassesOf(file)
    /\ \A c \in ClassesOf(file) :
        LET rows == RowsOfClass(file, c)
        IN  /\ Len(raw[c]) = Len(rows)
            /\ \A i \in 1..Len(rows) :
                   raw[c][i] = <<rows[i][1]>> \o SubSeq(rows[i], 3, Len(rows[i]))
            /\ DOMAIN by_frames[c] = FramesOf(file, c)
            /\ \A f \in FramesOf(file, c) :
                LET frows == RowsOfClassAndFrame(file, c, f)
                IN  /\ Len(by_frames[c][f]) = Len(frows)
                    /\ \A i \in 1..Len(frows) :
                           by_frames[c][f][i] = SubSeq(frows[i], 3, Len(frows[i]))

\* C3: after any sequence of loads the ground-truth indices hold exactly the
\* rows of the most recent load_groundtruths and the detection indices
\* exactly the rows of the most recent load_detections: a load of one kind
\* leaves the other kind's indices alone and no earlier row survives.
C3_IndicesHoldLastLoad ==
    /\ HoldsExactly(gts_raw, gts_by_frames, gt_file)
    /\ HoldsExactly(dets_raw, dets_by_frames, det_file)

\* A load_groundtruths that replaced earlier ground truth (the Curve Builder
\* had matched boxes of frame 2, which the new file no longer has) while
\* detections stay loaded.
C3_Witness ==
    /\ last.op = "load_groundtruths"
    /\ 2 \in DOMAIN matched_dets /\ matched_dets[2] # {}
    /\ gt_file # <<>> /\ det_file # <<>>
    /\ \A i \in 1..Len(gt_file) : gt_file[i][1] = 1

\* The decisions of one traversal: the log of a Matcher pass (one frame) or of
\* a Curve Builder pass (entries carry their frame).
FrameOf(entry) == IF "frame_id" \in DOMAIN entry THEN entry.frame_id ELSE 0

Traversals ==
    { p.log : p \in last.passes }
        \cup (IF last.op \in {"calc_precision_recall", "calc_ap"}
              THEN {last.log} ELSE {})

\* Detections of log whose best box is box g of frame f with IoU at or above
\* the threshold.
Claimants(log, f, g) ==
    { i \in 1..Len(log) :
        /\ FrameOf(log[i]) = f
        /\ log[i].best_gt_idx = g
        /\ RatGE(log[i].best_iou, iou_threshold) }

\* C4: in one traversal no ground-truth box is credited as a true positive to
\* more than one detection; of the detections of one frame whose best box at
\* or above the threshold is the same box, the first processed scores the TP
\* and every later one an FP.
C4_OneCreditPerBox ==
    \A log \in Traversals :
        /\ \A i \in 1..Len(log) : \A j \in (i + 1)..Len(log) :
               (/\ log[i].tp = 1 /\ log[j].tp = 1
                /\ FrameOf(log[i]) = FrameOf(log[j])) =>
                   log[i].best_gt_idx # log[j].best_gt_idx
        /\ \A j \in 1..Len(log) :
               LET claimants == Claimants(log, FrameOf(log[j]), log[j].best_gt_idx)
               IN  (j \in claimants /\ log[j].best_gt_idx >= 0) =>
                       (log[j].tp = 1 <=> \A i \in claimants : j <= i)

C4_Witness ==
    /\ last.op = "calc_total_tp"
    /\ \E p \in last.passes :
        /\ Len(p.log) = 2
        /\ Claimants(p.log, 0, 0) = {1, 2}
        /\ p.log[1].tp = 1 /\ p.log[2].tp = 0

\* C5: calc_tpr() and calc_fdr() return a value in [0,1] for every loaded data
\* set and every iou_threshold, and 0 when the denominator is 0.  With
\* iou_threshold = 0 the code returns a TPR above 1.
C5_RatesInUnitInterval ==
    /\ last.op = "calc_tpr" =>
        /\ RatGE(last.value, Zero) /\ RatGE(One, last.value)
        /\ CalcTotalTp(Self) + CalcTotalFn(Self) = 0 => last.value = Zero
    /\ last.op = "calc_fdr" =>
        /\ RatGE(last.value, Zero) /\ RatGE(One, last.value)
        /\ CalcTotalTp(Self) + CalcTotalFp(Self) = 0 => last.value = Zero

\* C6: after one Matcher pass over one frame, tp + fn is the number of
\* ground-truth boxes of the frame and tp + fp the number of its detections.
C6_CountsAddUp ==
    \A p \in last.passes :
        /\ p.tp + p.fn = Len(p.groundtruths)
        /\ p.tp + p.fp = Len(p.detections)

C6_Witness ==
    /\ last.op = "calc_total_fn"
    /\ \E p \in last.passes :
        /\ Len(p.detections) = 2 /\ Len(p.groundtruths) = 2
        /\ p.tp = 1 /\ p.fp = 1 /\ p.fn = 1

\* The object without the detections of one class.
WithoutDetections(self, class_name) ==
    [self EXCEPT
        !.dets_raw = [c \in DOMAIN self.dets_raw \ {class_name} |->
                         self.dets_raw[c]],
        !.dets_by_frames = [c \in DOMAIN self.dets_by_frames \ {class_name} |->
                               self.dets_by_frames[c]],
        !.matched_dets = EmptyDict]

DetectionOnlyClasses == DOMAIN dets_by_frames \ DOMAIN gts_by_frames

\* C7: a class that appears only in the detections adds exactly the number of
\* its detections to calc_total_fp(), nothing to calc_total_tp() and
\* calc_total_fn(), and does not enter the average of calc_map(): each query
\* returns what it returns without that class's detections (plus their
\* number, for calc_total_fp).
C7_DetectionOnlyClass ==
    \A c \in DetectionOnlyClasses :
        LET without == WithoutDetections(Self, c)
        IN  /\ last.op = "calc_total_fp" =>
                last.value[1] = CalcTotalFp(without) + Len(dets_raw[c])
            /\ last.op = "calc_total_tp" =>
                last.value[1] = CalcTotalTp(without)
            /\ last.op = "calc_total_fn" =>
                last.value[1] = CalcTotalFn(without)
            /\ last.op = "calc_map" =>
                /\ last.status = CalcMap(without).status
                /\ last.value = CalcMap(without).value
                /\ \A i \in 1..Len(gts_keys) : gts_keys[i] # c

C7_Witness ==
    /\ last.op = "calc_total_fp"
    /\ "bus" \in DetectionOnlyClasses
    /\ "car" \in DOMAIN gts_by_frames /\ "car" \in DOMAIN dets_by_frames
    /\ Len(dets_raw["bus"]) = 1
    /\ last.value[1] = 2

\* The object as the loads left it, before any query.
Fresh == [Self EXCEPT !.matched_dets = EmptyDict]

\* Boxes of frame f credited before entry i of a Curve Builder log.
CreditedBefore(log, i) ==
    { log[k].best_gt_idx :
        k \in { k \in 1..(i - 1) :
                  log[k].tp = 1 /\ log[k].frame_id = log[i].frame_id } }

\* C8: for fixed loaded data calc_precision_recall, calc_ap and calc_map
\* return what they return on an object no query has touched, whatever calls
\* ran before; every Curve Builder pass starts from an empty matched set and
\* sees only the matches of its own pass.
C8_QueriesLeaveNoTrace ==
    /\ last.op = "calc_precision_recall" =>
        LET r == CalcPrecisionRecall(Fresh, last.arg)
        IN  /\ last.status = r.status
            /\ last.precisions = r.precisions
            /\ last.recalls = r.recalls
    /\ last.op = "calc_ap" =>
        LET r == CalcAp(Fresh, last.arg)
        IN  last.status = r.status /\ last.value = r.value
    /\ last.op = "calc_map" =>
        LET r == CalcMap(Fresh)
        IN  last.status = r.status /\ last.value = r.value
    /\ last.op \in {"calc_precision_recall", "calc_ap"} =>
        \A i \in 1..Len(last.log) :
            last.log[i].before = CreditedBefore(last.log, i)

C8_Witness ==
    /\ last.op = "calc_precision_recall"
    /\ last.status = "ok"
    /\ last.over_stale

\* IoU of a box with every box of a list, and the first index (from 0) that
\* attains the largest.
IousOf(bbox, groundtruths) ==
    [i \in 1..Len(groundtruths) |-> CalcIou(bbox, groundtruths[i])]

MaxIou(bbox, groundtruths) ==
    LET ious == IousOf(bbox, groundtruths)
    IN  ious[CHOOSE i \in 1..Len(groundtruths) :
                 \A j \in 1..Len(groundtruths) : RatGE(ious[i], ious[j])]

FirstArgmax(bbox, groundtruths) ==
    LET ious == IousOf(bbox, groundtruths)
        m == MaxIou(bbox, groundtruths)
    IN  (CHOOSE i \in 1..Len(groundtruths) :
            /\ ious[i] = m
            /\ \A j \in 1..(i - 1) : ious[j] # m) - 1

\* C9: the Matcher decides each detection from its single best-IoU box: the
\* box is the first one that attains the maximum IoU, the detection is a true
\* positive (credited to that box) exactly when that IoU is at or above the
\* threshold and the box is not yet matched, and a false positive otherwise.
\* With iou_threshold = 0 the code scores a detection that overlaps no box as
\* a true positive of no box.
C9_BestBoxDecides ==
    \A p \in last.passes : \A i \in 1..Len(p.log) :
        LET bbox == SubSeq(p.detections[i], 1, 4)
            e == p.log[i]
        IN  IF Len(p.groundtruths) = 0 THEN e.tp = 0
            ELSE /\ e.tp = 1 <=>
                       /\ RatGE(MaxIou(bbox, p.groundtruths), iou_threshold)
                       /\ FirstArgmax(bbox, p.groundtruths) \notin e.before
                 /\ e.tp = 1 =>
                       e.best_gt_idx = FirstArgmax(bbox, p.groundtruths)

\* Largest precision among the points whose recall is at least r.
EnvelopeAt(precisions, recalls, r) ==
    LET ps == { precisions[j] : j \in { j \in 1..Len(recalls) :
                                          RatGE(recalls[j], r) } }
    IN  CHOOSE p \in ps : \A q \in ps : RatGE(p, q)

\* Area under the envelope over recall in (0, last recall]: the envelope is
\* constant between two neighbouring recall values.
RECURSIVE AreaOver(_, _, _, _)
AreaOver(precisions, recalls, levels, from) ==
    IF levels = {} THEN Zero
    ELSE LET l == CHOOSE l \in levels : \A m \in levels : RatGE(m, l)
         IN  RatAdd(RatMul(RatSub(l, from), EnvelopeAt(precisions, recalls, l)),
                    AreaOver(precisions, recalls, levels \ {l}, l))

EnvelopeArea(precisions, recalls) ==
    LET r_last == recalls[Len(recalls)]
        levels == { recalls[j] : j \in { j \in 1..Len(recalls) :
                        /\ RatGT(recalls[j], Zero)
                        /\ RatGE(r_last, recalls[j]) } }
    IN  AreaOver(precisions, recalls, levels, Zero)

\* C10: for every non-empty curve of the Curve Builder the value of calc_ap is
\* the area under the precision envelope over recall in (0, last recall];
\* an empty curve gives 0.
C10_ApIsEnvelopeArea ==
    (last.op = "calc_ap" /\ last.status = "ok") =>
        IF Len(last.precisions) = 0 THEN last.value = Zero
        ELSE last.value = EnvelopeArea(last.precisions, last.recalls)

\* A curve TP, FP, TP: the backward scan meets a precision above its running
\* maximum at a smaller recall and adds a segment of positive width.
C10_Witness ==
    /\ last.op = "calc_ap" /\ last.status = "ok"
    /\ Len(last.precisions) = 3
    /\ RatGT(last.precisions[1], last.precisions[3])
    /\ RatGT(last.precisions[3], last.precisions[2])
    /\ RatGT(last.recalls[3], last.recalls[1])
    /\ last.value = <<5, 6>>

\* The data hold class_name and no other class, in both indices, and every
\* detection lies in a frame that has ground truth of the class.
SingleClassCovered(class_name) ==
    /\ DOMAIN gts_by_frames = {class_name}
    /\ DOMAIN dets_by_frames = {class_name}
    /\ DOMAIN dets_by_frames[class_name] \subseteq
           DOMAIN gts_by_frames[class_name]

\* True positives accumulated over a Curve Builder pass.
RECURSIVE TpOver(_, _)
TpOver(log, n) == IF n = 0 THEN 0 ELSE TpOver(log, n - 1) + log[n].tp

\* C11: for data with a single class, present in both indices, whose
\* detections all lie in frames with ground truth of the class, the true
\* positives accumulated over the Curve Builder pass equal calc_total_tp()
\* and the pass's final fn_total equals calc_total_fn(); seen from either
\* side, after calc_precision_recall, calc_total_tp or calc_total_fn.
C11_TraversalsAgree ==
    \A class_name \in Classes :
        SingleClassCovered(class_name) =>
            LET r == CalcPrecisionRecall(Self, class_name)
            IN  /\ r.status = "ok"
                /\ (last.op = "calc_precision_recall" /\ last.arg = class_name) =>
                       /\ last.status = "ok"
                       /\ last.log = r.log
                       /\ TpOver(last.log, Len(last.log)) = CalcTotalTp(Self)
                       /\ r.fn_total = CalcTotalFn(Self)
                /\ last.op = "calc_total_tp" =>
                       last.value = <<TpOver(r.log, Len(r.log)), 1>>
                /\ last.op = "calc_total_fn" =>
                       last.value = <<r.fn_total, 1>>

\* A Curve Builder pass over two detections of one frame, one a true
\* positive and one a false positive, with a box of a second frame missed.
C11_Witness ==
    /\ last.op = "calc_precision_recall" /\ last.status = "ok"
    /\ SingleClassCovered(last.arg)
    /\ Len(last.log) = 2
    /\ TpOver(last.log, 2) = 1
    /\ CalcTotalTp(Self) = 1
    /\ CalcTotalFn(Self) = 1
    /\ Cardinality(DOMAIN gts_by_frames[last.arg]) = 2

====
